---- MODULE Spec2Model ----
(***************************************************************************)
(* A model of astropy/io/fits/scripts/fitshead.py: the HDU key selection   *)
(* of HeaderFormatter.parse, the text and JSON formatters, and the loop of *)
(* main over the file names of the command line.                           *)
(*                                                                         *)
(* Strings the program inspects (the --ext argument, EXTNAME values) are   *)
(* sequences of one-character strings; file names are atoms.  An exception *)
(* is a record of its type and message.  The FITS decoder (fits.open,      *)
(* HDUList indexing, Header.tostring/keys/values) lives outside this file; *)
(* it is modelled by Disk, MkHduList, GetItem and HeaderToString.          *)
(***************************************************************************)
EXTENDS Integers, Sequences, FiniteSets, TLC

VARIABLES
    python,     \* the interpreter running the script: "2.6", "2.7" or "3"
    filenames,  \* args.filename
    ext,        \* args.ext
    json,       \* args.json
    pc,         \* position of main (or of the function under check)
    i,          \* index in filenames of the file being processed (1-based)
    stdout,     \* the values print has written, in order
    logged,     \* the messages handed to log.error, in order
    opened,     \* the file names fits.open has been called with, in order
    live,       \* loop indices whose HDUList is still open (never closed)
    raised,     \* the exception in flight, or the one that left main
    arg,        \* inputs of a function checked on its own
    ret         \* its result

vars == <<python, filenames, ext, json, pc, i, stdout, logged, opened, live,
          raised, arg, ret>>

----------------------------------------------------------------------------
(* Bounds of the model                                                     *)

MaxFiles == 3
MaxExt == 3
MaxSpecLen == 5
MaxHdus == 3
MaxKeys == 3

Alphabet == {"S", ",", "-", "1", "2"}

StringsUpTo(n) == UNION {[1..k -> Alphabet] : k \in 0..n}

----------------------------------------------------------------------------
(* Values                                                                  *)

None == [some |-> FALSE, s |-> <<>>]
Some(s) == [some |-> TRUE, s |-> s]

NoKey == [tag |-> "none", name |-> <<>>, n |-> 0]
IntKey(n) == [tag |-> "int", name |-> <<>>, n |-> n]
NameKey(s) == [tag |-> "name", name |-> s, n |-> 0]
PairKey(s, v) == [tag |-> "pair", name |-> s, n |-> v]

NoMsg == [file |-> "", key |-> NoKey, text |-> ""]
NoExc == [type |-> "none", msg |-> NoMsg]
Exc(type, msg) == [type |-> type, msg |-> msg]

Pythons == {"2.6", "2.7", "3"}

\* BaseException.message exists on Python 2 only.
HasMessageAttr(py) == py \in {"2.6", "2.7"}

\* collections.OrderedDict exists from Python 2.7 on.
HasOrderedDict(py) == py \in {"2.7", "3"}

----------------------------------------------------------------------------
(* Python string and integer primitives used by parse                      *)

Digits == {"0", "1", "2", "3", "4", "5", "6", "7", "8", "9"}

DigitVal(c) ==
    CASE c = "0" -> 0 [] c = "1" -> 1 [] c = "2" -> 2 [] c = "3" -> 3
      [] c = "4" -> 4 [] c = "5" -> 5 [] c = "6" -> 6 [] c = "7" -> 7
      [] c = "8" -> 8 [] c = "9" -> 9

RECURSIVE DecimalValue(_)
DecimalValue(s) ==
    IF s = <<>> THEN 0
    ELSE 10 * DecimalValue(SubSeq(s, 1, Len(s) - 1)) + DigitVal(s[Len(s)])

Unsigned(s) == IF Len(s) > 0 /\ s[1] \in {"-", "+"} THEN Tail(s) ELSE s

\* int(s) succeeds: an optional sign followed by one or more digits.
IsIntLiteral(s) ==
    /\ Len(Unsigned(s)) > 0
    /\ \A k \in 1..Len(Unsigned(s)) : Unsigned(s)[k] \in Digits

\* int(s), for s with IsIntLiteral(s)
IntValue(s) ==
    IF Len(s) > 0 /\ s[1] = "-" THEN 0 - DecimalValue(Unsigned(s))
    ELSE DecimalValue(Unsigned(s))

\* s.split(','): always at least one part
RECURSIVE Split(_)
Split(s) ==
    IF \A k \in 1..Len(s) : s[k] # "," THEN <<s>>
    ELSE LET p == CHOOSE k \in 1..Len(s) :
                     s[k] = "," /\ \A m \in 1..(k - 1) : s[m] # ","
         IN <<SubSeq(s, 1, p - 1)>> \o Split(SubSeq(s, p + 1, Len(s)))

\* ','.join(parts)
RECURSIVE Join(_)
Join(parts) ==
    IF parts = <<>> THEN <<>>
    ELSE IF Len(parts) = 1 THEN parts[1]
    ELSE parts[1] \o <<",">> \o Join(Tail(parts))

----------------------------------------------------------------------------
(* The FITS decoder: files on disk, HDUList indexing, Header rendering     *)

\* A header card: keyword and value.
Card(k, v) == [k |-> k, v |-> v]
NoCard == Card("", 0)

\* HDU number x (0-based) of a file: the primary HDU, then SCI extensions
\* numbered by EXTVER.
Hdu(x) ==
    IF x = 0
    THEN [name |-> <<"P">>, ver |-> 1,
          cards |-> <<Card("SIMPLE", 1), Card("BITPIX", 8)>>]
    ELSE [name |-> <<"S">>, ver |-> x,
          cards |-> <<Card("BITPIX", 16), Card("EXTVER", x)>>]

MkHduList(n) == [k \in 1..n |-> Hdu(k - 1)]

Files == {"absent.fits", "p.fits", "pss.fits"}

Openable(f) == f # "absent.fits"

\* fits.open(f), for an openable f
Disk(f) == IF f = "p.fits" THEN MkHduList(1) ELSE MkHduList(3)

\* HDUList.index_of for a name or a (name, version) pair
Matches(hdulist, key) ==
    {k \in 1..Len(hdulist) :
        /\ hdulist[k].name = key.name
        /\ (key.tag = "pair" => hdulist[k].ver = key.n)}

\* hdulist[key]: the position of the HDU, or the error the lookup raises
GetItem(hdulist, key) ==
    IF key.tag = "int"
    THEN IF key.n >= 0 /\ key.n < Len(hdulist)
         THEN [err |-> "none", pos |-> key.n + 1, msg |-> NoMsg]
         ELSE IF key.n < 0 /\ key.n >= 0 - Len(hdulist)
         THEN [err |-> "none", pos |-> Len(hdulist) + key.n + 1, msg |-> NoMsg]
         ELSE [err |-> "IndexError", pos |-> 0,
               msg |-> [file |-> "", key |-> NoKey,
                        text |-> "list index out of range"]]
    ELSE IF Cardinality(Matches(hdulist, key)) = 1
         THEN [err |-> "none",
               pos |-> CHOOSE k \in Matches(hdulist, key) : TRUE,
               msg |-> NoMsg]
         ELSE IF Matches(hdulist, key) = {}
         THEN [err |-> "KeyError", pos |-> 0,
               msg |-> [file |-> "", key |-> key,
                        text |-> "Extension not found."]]
         ELSE [err |-> "KeyError", pos |-> 0,
               msg |-> [file |-> "", key |-> key,
                        text |-> "There are several extensions of"]]

Resolvable(hdulist, key) == GetItem(hdulist, key).err = "none"

\* Tokens of rendered text: a line separator, the '# HDU .. in ..:' line of
\* one HDU, one rendered card.
NlTok == [t |-> "nl", key |-> NoKey, file |-> "", card |-> NoCard]
HdrTok(key, f) == [t |-> "hdr", key |-> key, file |-> f, card |-> NoCard]
CardTok(c) == [t |-> "card", key |-> NoKey, file |-> "", card |-> c]

\* header.tostring(sep=os.linesep, padding=False): one line per card
RECURSIVE HeaderToString(_)
HeaderToString(cards) ==
    IF cards = <<>> THEN <<>>
    ELSE IF Len(cards) = 1 THEN <<CardTok(cards[1])>>
    ELSE <<CardTok(cards[1]), NlTok>> \o HeaderToString(Tail(cards))

----------------------------------------------------------------------------
(* HeaderFormatter                                                         *)

Ok(v) == [exc |-> NoExc, val |-> v]
Raise(e) == [exc |-> e, val |-> <<>>]

ValueError == Exc("ValueError", [file |-> "", key |-> NoKey,
                                 text |-> "invalid literal for int()"])
AttributeError == Exc("AttributeError", [file |-> "", key |-> NoKey,
                                         text |-> "no attribute 'message'"])
FormattingException(m) == Exc("FormattingException", m)

\* HeaderFormatter.__init__: the outcome of fits.open(filename)
Construct(f, py) ==
    IF Openable(f) THEN Ok(Disk(f))
    ELSE IF HasMessageAttr(py)
         THEN Raise(FormattingException([file |-> "", key |-> NoKey,
                                         text |-> ""]))
         ELSE Raise(AttributeError)

RangeKeysFromOne(n) == [k \in 1..n |-> IntKey(k)]

\* range(len(self.hdulist))
RangeKeys(n) == [k \in 1..n |-> IntKey(k - 1)]

FirstPartAsName(parts) == PairKey(parts[1], IntValue(parts[Len(parts)]))

\* (extname, extver) of "EXTNAME,EXTVER", the last part being an integer
PairOf(parts) ==
    PairKey(Join(SubSeq(parts, 1, Len(parts) - 1)), IntValue(parts[Len(parts)]))

\* parse, up to the call of _format_hdulist: the value of hdukeys
Select(hdulist, e) ==
    IF ~e.some THEN Ok(RangeKeys(Len(hdulist)))
    ELSE IF IsIntLiteral(e.s) THEN Ok(<<IntKey(IntValue(e.s))>>)
    ELSE LET parts == Split(e.s)
         IN IF Len(parts) > 1
            THEN IF IsIntLiteral(parts[Len(parts)])
                 THEN Ok(<<PairOf(parts)>>)
                 ELSE Raise(ValueError)
            ELSE Ok(<<NameKey(e.s)>>)

\* _get_header: the cards of the HDU, or the exception raised
get_header(hdulist, f, key, py) ==
    LET r == GetItem(hdulist, key)
    IN IF r.err = "none" THEN Ok(hdulist[r.pos].cards)
       ELSE IF r.err = "IndexError"
       THEN Raise(FormattingException([file |-> f, key |-> key,
                                       text |-> "Extension # not found."]))
       ELSE IF HasMessageAttr(py)
       THEN Raise(FormattingException([file |-> f, key |-> r.msg.key,
                                       text |-> r.msg.text]))
       ELSE Raise(AttributeError)

SeparatorAlways(k) == <<NlTok, NlTok>>

\* prefix of entry number k (0-based) of the text
Prefix(k) == IF k > 0 THEN <<NlTok, NlTok>> ELSE <<>>

\* HeaderFormatter._format_hdulist: the loop from entry k on, text so far
RECURSIVE FormatTextFrom(_, _, _, _, _, _)
FormatTextFrom(hdulist, f, keys, py, k, text) ==
    IF k > Len(keys) THEN Ok(text)
    ELSE LET h == get_header(hdulist, f, keys[k], py)
         IN IF h.exc.type # "none" THEN Raise(h.exc)
            ELSE FormatTextFrom(hdulist, f, keys, py, k + 1,
                     text \o Prefix(k - 1) \o <<HdrTok(keys[k], f), NlTok>>
                          \o HeaderToString(h.val))

FormatText(hdulist, f, keys, py) == FormatTextFrom(hdulist, f, keys, py, 1, <<>>)

----------------------------------------------------------------------------
(* JSONHeaderFormatter                                                     *)

\* JSON values as json.dumps serialises them; an object keeps the order in
\* which its members are written.
JNum(n) == [jt |-> "num", v |-> n]
JStr(s) == [jt |-> "str", v |-> s]
JArr(xs) == [jt |-> "arr", v |-> xs]
JObj(ms) == [jt |-> "obj", v |-> ms]
Member(k, v) == [k |-> k, v |-> v]

\* json.dumps of a lookup key: a tuple is serialised as an array
JsonOfKey(key) ==
    IF key.tag = "int" THEN JNum(key.n)
    ELSE IF key.tag = "name" THEN JStr(key.name)
    ELSE JArr(<<JStr(key.name), JNum(key.n)>>)

Reverse(xs) == [k \in 1..Len(xs) |-> xs[Len(xs) + 1 - k]]

\* The orders in which mydict can iterate: OrderedDict keeps insertion
\* order; the dict of Python 2.6 iterates in hash order, of which insertion
\* order and its reverse are modelled.
DictOrders(py) == IF HasOrderedDict(py) THEN {"insertion"}
                  ELSE {"insertion", "reversed"}

\* d[k] = v on the members inserted so far
DictSet(ms, k, v) ==
    IF \E p \in 1..Len(ms) : ms[p].k = k
    THEN [p \in 1..Len(ms) |-> IF ms[p].k = k THEN Member(k, v) ELSE ms[p]]
    ELSE Append(ms, Member(k, v))

RECURSIVE DictFrom(_, _)
DictFrom(pairs, ms) ==
    IF pairs = <<>> THEN ms
    ELSE DictFrom(Tail(pairs), DictSet(ms, pairs[1].k, pairs[1].v))

\* mydict(pairs), as json.dumps will iterate over it
MyDict(pairs, ord) ==
    IF ord = "insertion" THEN DictFrom(pairs, <<>>)
    ELSE Reverse(DictFrom(pairs, <<>>))

\* zip(hdr.keys(), hdr.values())
CardPairs(cards) == [k \in 1..Len(cards) |-> Member(cards[k].k, JNum(cards[k].v))]

\* JSONHeaderFormatter._format_hdulist: the loop from entry k on
RECURSIVE FormatJsonFrom(_, _, _, _, _, _, _)
FormatJsonFrom(hdulist, f, keys, py, ord, k, list) ==
    IF k > Len(keys)
    THEN Ok(JObj(MyDict(<<Member("filename", JStr(<<f>>)),
                          Member("hdulist", JArr(list))>>, ord)))
    ELSE LET h == get_header(hdulist, f, keys[k], py)
         IN IF h.exc.type # "none" THEN Raise(h.exc)
            ELSE FormatJsonFrom(hdulist, f, keys, py, ord, k + 1,
                   Append(list,
                     JObj(MyDict(<<Member("hdu", JsonOfKey(keys[k])),
                                   Member("cards",
                                          JObj(MyDict(CardPairs(h.val), ord)))>>,
                                 ord))))

FormatJson(hdulist, f, keys, py, ord) ==
    FormatJsonFrom(hdulist, f, keys, py, ord, 1, <<>>)

\* _format_hdulist as dispatched on the class main instantiates
format_hdulist(hdulist, f, keys, js, py, ord) ==
    IF js THEN FormatJson(hdulist, f, keys, py, ord)
    ELSE FormatText(hdulist, f, keys, py)

\* parse: select the keys, then format them
parse(hdulist, f, e, js, py, ord) ==
    LET sel == Select(hdulist, e)
    IN IF sel.exc.type # "none" THEN Raise(sel.exc)
       ELSE format_hdulist(hdulist, f, sel.val, js, py, ord)

----------------------------------------------------------------------------
(* main                                                                    *)

FileLists == UNION {[1..k -> Files] : k \in 1..MaxFiles}

ExtArgs(n) == {None} \cup {Some(s) : s \in StringsUpTo(n)}

NoCall == [fn |-> "none"]

Init ==
    /\ python \in Pythons
    /\ filenames \in FileLists
    /\ ext \in ExtArgs(MaxExt)
    /\ json \in BOOLEAN
    /\ pc = "loop"
    /\ i = 1
    /\ stdout = <<>>
    /\ logged = <<>>
    /\ opened = <<>>
    /\ live = {}
    /\ raised = NoExc
    /\ arg = NoCall
    /\ ret = NoCall

\* where an exception raised inside the try block of main takes control
Handler(e) == IF e.type = "FormattingException" THEN "except" ELSE "crashed"

\* HeaderFormatter(filename) / JSONHeaderFormatter(filename)
OpenFile ==
    /\ pc = "loop"
    /\ i <= Len(filenames)
    /\ opened' = Append(opened, filenames[i])
    /\ LET c == Construct(filenames[i], python)
       IN IF c.exc.type = "none"
          THEN /\ live' = live \cup {i}
               /\ pc' = "parse"
               /\ raised' = raised
          ELSE /\ live' = live
               /\ pc' = Handler(c.exc)
               /\ raised' = c.exc
    /\ UNCHANGED <<python, filenames, ext, json, i, stdout, logged, arg, ret>>

\* print(<formatter>.parse(args.ext))
ParseAndPrint ==
    /\ pc = "parse"
    /\ \E ord \in DictOrders(python) :
         LET r == parse(Disk(filenames[i]), filenames[i], ext, json, python, ord)
         IN IF r.exc.type = "none"
            THEN /\ stdout' = Append(stdout, r.val)
                 /\ i' = i + 1
                 /\ pc' = "loop"
                 /\ raised' = raised
            ELSE /\ stdout' = stdout
                 /\ i' = i
                 /\ pc' = Handler(r.exc)
                 /\ raised' = r.exc
    /\ UNCHANGED <<python, filenames, ext, json, logged, opened, live, arg, ret>>

LogErrorAndContinue ==
    /\ pc = "except"
    /\ logged' = Append(logged, raised.msg)
    /\ i' = i + 1
    /\ pc' = "loop"
    /\ UNCHANGED <<python, filenames, ext, json, stdout, opened, live,
                   raised, arg, ret>>

\* except FormattingException as e: log.error(e), after which main returns
LogError ==
    /\ pc = "except"
    /\ logged' = Append(logged, raised.msg)
    /\ pc' = "done"
    /\ UNCHANGED <<python, filenames, ext, json, i, stdout, opened, live,
                   raised, arg, ret>>

\* the for loop is exhausted: main returns
Return ==
    /\ pc = "loop"
    /\ i > Len(filenames)
    /\ pc' = "done"
    /\ UNCHANGED <<python, filenames, ext, json, i, stdout, logged, opened,
                   live, raised, arg, ret>>

\* No statement closes an HDUList: its file is released only if and when
\* the interpreter reclaims the formatter object main no longer uses.
Collect ==
    /\ pc \in {"loop", "parse", "except", "done"}
    /\ \E h \in live :
         /\ ~(pc = "parse" /\ h = i)
         /\ live' = live \ {h}
    /\ UNCHANGED <<python, filenames, ext, json, pc, i, stdout, logged,
                   opened, raised, arg, ret>>

Next == OpenFile \/ ParseAndPrint \/ LogError \/ Return \/ Collect

Spec == Init /\ [][Next]_vars

----------------------------------------------------------------------------
(* parse's key selection on its own                                        *)

MainIdle ==
    /\ filenames = <<>>
    /\ ext = None
    /\ json = FALSE
    /\ i = 1
    /\ stdout = <<>>
    /\ logged = <<>>
    /\ opened = <<>>
    /\ live = {}
    /\ raised = NoExc

InitParse ==
    /\ MainIdle
    /\ python \in Pythons
    /\ pc = "select:call"
    /\ \E n \in 0..MaxHdus : \E e \in ExtArgs(MaxSpecLen) :
         arg = [fn |-> "select", hdulist |-> MkHduList(n), ext |-> e]
    /\ ret = NoCall

SelectCall ==
    /\ pc = "select:call"
    /\ ret' = Select(arg.hdulist, arg.ext)
    /\ pc' = "select:ret"
    /\ UNCHANGED <<python, filenames, ext, json, i, stdout, logged, opened,
                   live, raised, arg>>

NextParse == SelectCall

SpecParse == InitParse /\ [][NextParse]_vars

----------------------------------------------------------------------------
(* _format_hdulist on its own                                              *)

KeyUniverse ==
    {IntKey(n) : n \in {-1, 0, 2, 3}}
      \cup {NameKey(<<"S">>), NameKey(<<"P">>)}
      \cup {PairKey(<<"S">>, 1), PairKey(<<"S">>, 2)}

KeyLists == UNION {[1..k -> KeyUniverse] : k \in 0..MaxKeys}

InitFormat ==
    /\ MainIdle
    /\ python \in Pythons
    /\ pc = "format:call"
    /\ \E f \in {g \in Files : Openable(g)} : \E ks \in KeyLists :
         \E js \in BOOLEAN :
           arg = [fn |-> "format", file |-> f, keys |-> ks, json |-> js]
    /\ ret = NoCall

FormatCall ==
    /\ pc = "format:call"
    /\ \E ord \in DictOrders(python) :
         ret' = format_hdulist(Disk(arg.file), arg.file, arg.keys, arg.json,
                              python, ord)
    /\ pc' = "format:ret"
    /\ UNCHANGED <<python, filenames, ext, json, i, stdout, logged, opened,
                   live, raised, arg>>

NextFormat == FormatCall

SpecFormat == InitFormat /\ [][NextFormat]_vars

----------------------------------------------------------------------------
(* Properties of main                                                      *)

\* The value main prints for file f processed on its own, if it prints one.
Outcomes(f) ==
    {parse(Disk(f), f, ext, json, python, ord) : ord \in DictOrders(python)}

SucceedsAlone(f) ==
    Openable(f) /\ \A r \in Outcomes(f) : r.exc.type = "none"

OutputsOf(f) == {r.val : r \in Outcomes(f)}

\* C1: a reportable failure on one file does not stop the batch: when main
\* has returned, every file name was opened and every file that succeeds
\* on its own has its output on standard output, wherever it stands.
C1_BatchContinuesAfterFailure ==
    pc = "done" =>
        /\ opened = filenames
        /\ Len(stdout) = Cardinality({k \in 1..Len(filenames) :
                                         SucceedsAlone(filenames[k])})

\* The part of s after its last comma.
LastPart(s) ==
    LET commas == {k \in 1..Len(s) : s[k] = ","}
        last == CHOOSE k \in commas : \A m \in commas : m <= k
    IN SubSeq(s, last + 1, Len(s))

HasComma(s) == \E k \in 1..Len(s) : s[k] = ","

Malformed(s) == ~IsIntLiteral(s) /\ HasComma(s) /\ ~IsIntLiteral(LastPart(s))

\* parse has raised: an exception is recorded and the file last opened did
\* open.
ParseFailed ==
    /\ raised.type # "none"
    /\ opened # <<>>
    /\ Openable(opened[Len(opened)])

\* C2: on a specifier with a comma whose last part is no integer, parse
\* fails with FormattingException, which main catches and logs; no other
\* error leaves main.
C2_MalformedSpecIsReportable ==
    (ext.some /\ Malformed(ext.s) /\ ParseFailed) =>
        /\ raised.type = "FormattingException"
        /\ pc # "crashed"

\* C3: whenever main is about to open the next file, or has returned, no
\* HDUList opened earlier is still open.
C3_HandlesReleasedEachIteration ==
    pc \in {"loop", "done"} => live = {}

\* C7: a file whose processing failed (open failure, missing extension,
\* malformed specifier) has put nothing on standard output and has caused
\* exactly one logged error.
C7_FailedFileSilentAndLoggedOnce ==
    (raised.type # "none" /\ pc \in {"done", "crashed"}) =>
        /\ Len(stdout) = i - 1
        /\ \A k \in 1..Len(stdout) : stdout[k] \in OutputsOf(filenames[k])
        /\ Len(logged) = 1

\* Standard output holds the complete outputs of a prefix of the file list.
PrintedIsPrefix ==
    /\ Len(stdout) <= Len(filenames)
    /\ \A k \in 1..Len(stdout) : stdout[k] \in OutputsOf(filenames[k])

\* C10: a logged error is the last observable event of main: once
\* log.error has been called no file is opened, nothing is printed and no
\* second error is logged; the printed outputs are those of a prefix of the
\* file list, in argument order.
C10_LoggedErrorIsLast ==
    /\ [](PrintedIsPrefix /\ Len(logged) <= 1)
    /\ [][logged # <<>> =>
            (opened' = opened /\ stdout' = stdout /\ logged' = logged)]_vars

\* An error was logged while a later file name was still waiting, after an
\* earlier file had been printed.
C10_Witness ==
    /\ pc = "done"
    /\ Len(logged) = 1
    /\ Len(stdout) >= 1
    /\ Len(opened) < Len(filenames)

----------------------------------------------------------------------------
(* Properties of the key selection                                         *)

\* C4: with no extension specifier, parse selects exactly the keys
\* 0, 1, ..., N-1 in increasing order for a container of N HDUs.
C4_AllKeysInOrder ==
    (pc = "select:ret" /\ ~arg.ext.some) =>
        /\ ret.exc.type = "none"
        /\ Len(ret.val) = Len(arg.hdulist)
        /\ \A k \in 1..Len(ret.val) :
             ret.val[k].tag = "int" /\ ret.val[k].n = k - 1

C4_Witness ==
    /\ pc = "select:ret"
    /\ ~arg.ext.some
    /\ Len(arg.hdulist) >= 2
    /\ Len(ret.val) >= 2

\* C5: when the selection succeeds on a specifier string it yields exactly
\* one key: the integer if the string is an integer; else, if it holds a
\* comma, the pair of everything before the last comma and the integer
\* after it; else the string itself as a bare name.
C5_OneKeyPerSpecifier ==
    (pc = "select:ret" /\ arg.ext.some /\ ret.exc.type = "none") =>
        /\ Len(ret.val) = 1
        /\ LET s == arg.ext.s
               key == ret.val[1]
           IN IF IsIntLiteral(s)
              THEN key.tag = "int" /\ key.n = IntValue(s)
              ELSE IF HasComma(s)
              THEN /\ key.tag = "pair"
                   /\ key.name \o <<",">> \o LastPart(s) = s
                   /\ key.n = IntValue(LastPart(s))
              ELSE key.tag = "name" /\ key.name = s

\* "S,S,2" gives ("S,S", 2)
C5_Witness ==
    /\ pc = "select:ret"
    /\ arg.ext = Some(<<"S", ",", "S", ",", "2">>)
    /\ ret.exc.type = "none"
    /\ ret.val = <<PairKey(<<"S", ",", "S">>, 2)>>

----------------------------------------------------------------------------
(* Properties of the formatters                                            *)

AllResolvable ==
    \A k \in 1..Len(arg.keys) : Resolvable(Disk(arg.file), arg.keys[k])

\* The first key of the call that resolves to no HDU.
FirstUnresolvable ==
    LET bad == {k \in 1..Len(arg.keys) :
                   ~Resolvable(Disk(arg.file), arg.keys[k])}
    IN arg.keys[CHOOSE k \in bad : \A m \in bad : k <= m]

\* C6: for a key that resolves to no HDU, retrieving the header fails with
\* FormattingException, and the message holds the file name of the
\* container and the key.
C6_MissingExtensionNamesFileAndKey ==
    (pc = "format:ret" /\ ~AllResolvable) =>
        /\ ret.exc.type = "FormattingException"
        /\ ret.exc.msg.file = arg.file
        /\ ret.exc.msg.key = FirstUnresolvable

\* text.split(os.linesep)
RECURSIVE Lines(_)
Lines(text) ==
    IF \A k \in 1..Len(text) : text[k].t # "nl" THEN <<text>>
    ELSE LET p == CHOOSE k \in 1..Len(text) :
                     text[k].t = "nl" /\ \A m \in 1..(k - 1) : text[m].t # "nl"
         IN <<SubSeq(text, 1, p - 1)>> \o Lines(SubSeq(text, p + 1, Len(text)))

IsHdrLine(l) == Len(l) = 1 /\ l[1].t = "hdr"

\* C8: for k >= 1 resolvable keys the text holds exactly k lines
\* '# HDU <key> in <filename>:', in the order of the keys, and exactly k-1
\* blank lines: one right before every such line but the first, none at
\* the start and none at the end.
C8_TextHeadersAndSeparators ==
    (pc = "format:ret" /\ ~arg.json /\ Len(arg.keys) >= 1 /\ AllResolvable) =>
        /\ ret.exc.type = "none"
        /\ LET lines == Lines(ret.val)
               hdrs == SelectSeq(lines, IsHdrLine)
               blanks == {p \in 1..Len(lines) : lines[p] = <<>>}
           IN /\ Len(hdrs) = Len(arg.keys)
              /\ \A k \in 1..Len(hdrs) :
                   hdrs[k] = <<HdrTok(arg.keys[k], arg.file)>>
              /\ Cardinality(blanks) = Len(arg.keys) - 1
              /\ IsHdrLine(lines[1])
              /\ \A p \in blanks : p < Len(lines) /\ IsHdrLine(lines[p + 1])

C8_Witness ==
    /\ pc = "format:ret"
    /\ ~arg.json
    /\ Len(arg.keys) = 3
    /\ arg.keys[2].tag = "pair"
    /\ AllResolvable
    /\ ret.exc.type = "none"
    /\ Cardinality({p \in 1..Len(Lines(ret.val)) : Lines(ret.val)[p] = <<>>}) = 2

\* obj[name], for a JSON object holding a member of that name
Get(obj, name) == obj.v[CHOOSE p \in 1..Len(obj.v) : obj.v[p].k = name].v

\* C9: for resolvable keys the 'hdulist' of the JSON document holds one
\* element per key, in order, whose 'hdu' is the key as an integer or a
\* string and whose 'cards' holds the cards of that HDU in insertion order.
C9_JsonOneElementPerKey ==
    (pc = "format:ret" /\ arg.json /\ AllResolvable) =>
        /\ ret.exc.type = "none"
        /\ LET list == Get(ret.val, "hdulist").v
           IN /\ Len(list) = Len(arg.keys)
              /\ \A k \in 1..Len(list) :
                   LET key == arg.keys[k]
                       hdu == Get(list[k], "hdu")
                       cards == Disk(arg.file)[GetItem(Disk(arg.file), key).pos].cards
                   IN /\ hdu.jt \in {"num", "str"}
                      /\ hdu.jt = "num" => key.tag = "int" /\ hdu.v = key.n
                      /\ hdu.jt = "str" => key.tag = "name" /\ hdu.v = key.name
                      /\ Get(list[k], "cards").v = CardPairs(cards)

====
